---- MODULE Spec2Model ----
(***************************************************************************)
(* Model of biaslyze's CounterfactualBiasDetector: concept registration    *)
(* and the process() pipeline (validation, concept detection, per-text cap,*)
(* counterfactual sample extraction, per-keyword scoring, de-duplication   *)
(* of score columns, result assembly).                                     *)
(*                                                                         *)
(* Python values that may be None / int / float are records [kind, v];     *)
(* probabilities and scores are integers counting tenths (9 is 0.9).       *)
(* A text is the sequence of its tokens.  Sequences are 1-based, so the    *)
(* class-1 probability predicted_scores[:, 1] is entry 2 of a vector.      *)
(***************************************************************************)
EXTENDS Integers, Sequences, FiniteSets, TLC

\* ---------------------------------------------------------------- bounds
MaxTexts == 2
MaxCap == 2

\* ------------------------------------------------------- python values
NoneVal == [kind |-> "None", v |-> 0]
IntVal(n) == [kind |-> "int", v |-> n]
FloatVal(t) == [kind |-> "float", v |-> t]
NaN == [kind |-> "NaN", v |-> 0]

\* Python truthiness of an Optional number: None and 0 are falsy.
Truthy(x) == x.kind # "None" /\ x.v # 0

\* isinstance(x, int)
IsInt(x) == x.kind = "int"

\* ------------------------------------------------------ sequence helpers
Range(s) == {s[i] : i \in 1..Len(s)}

RECURSIVE Concat(_)
Concat(ss) == IF ss = <<>> THEN <<>> ELSE Head(ss) \o Concat(Tail(ss))

RECURSIVE SeqsUpTo(_, _)
SeqsUpTo(S, n) ==
    IF n = 0 THEN {<<>>}
    ELSE LET shorter == SeqsUpTo(S, n - 1)
         IN shorter \cup {Append(s, x) : s \in {t \in shorter : Len(t) = n - 1}, x \in S}

\* The members of a finite set of integers, in increasing order.
RECURSIVE Ascending(_)
Ascending(S) ==
    IF S = {} THEN <<>>
    ELSE LET least == CHOOSE x \in S : \A y \in S : x <= y
         IN <<least>> \o Ascending(S \ {least})

\* ------------------------------------------------------------- concepts
Keyword(t, f) == [text |-> t, functions |-> f]

GenderConcept ==
    [isConcept |-> TRUE, name |-> "gender",
     keywords |-> << Keyword("he", {"subject"}), Keyword("she", {"subject"}),
                     Keyword("him", {"object"}) >>]

ReligionConcept ==
    [isConcept |-> TRUE, name |-> "religion",
     keywords |-> << Keyword("nun", {}), Keyword("monk", {}) >>]

\* A second concept object carrying an already registered name.
GenderAgain ==
    [isConcept |-> TRUE, name |-> "gender",
     keywords |-> << Keyword("monk", {}) >>]

\* A value that is not a Concept object.
NotAConcept == [isConcept |-> FALSE, name |-> "religion", keywords |-> <<>>]

\* load_concepts(lang): the concepts present after construction.
load_concepts == << GenderConcept >>

Registrable == {ReligionConcept, GenderAgain, NotAConcept}

ConceptNames(cs) == [i \in 1..Len(cs) |-> cs[i].name]

\* ---------------------------------------------------------------- inputs
Corpus ==
    { <<"he", "x">>, <<"she", "x">>, <<"x">>, <<"him", "nun">> }

TextLists == SeqsUpTo(Corpus, MaxTexts)

\* labels, when given, are aligned with texts: label i belongs to texts[i].
LabelsFor(ts) == [i \in 1..Len(ts) |-> IntVal(i)]

CapValues ==
    {NoneVal, FloatVal(15)} \cup {IntVal(n) : n \in -1..MaxCap}

PerTextCapValues == {NoneVal, FloatVal(15), IntVal(0), IntVal(1)}

ConceptFilters ==
    { [isList |-> FALSE, items |-> <<>>],
      [isList |-> TRUE, items |-> <<>>],
      [isList |-> TRUE, items |-> <<"gender">>],
      [isList |-> TRUE, items |-> <<"religion">>],
      [isList |-> TRUE, items |-> <<"unknown_concept">>],
      [isList |-> TRUE, items |-> <<"religion", "unknown_concept">>] }

\* A prediction function: a binary or 3-class classifier that scores a text
\* by whether it mentions "he" (kind "bias") or scores every text the same
\* (kind "const"); it may raise on a batch holding a text with FailToken, and
\* on an empty batch it either raises ValueError or returns an empty array.
FailToken == "she"

PredictFuncs ==
    { [given |-> TRUE, kind |-> "bias", width |-> 2, raises |-> "none", on_empty |-> "ValueError"],
      [given |-> TRUE, kind |-> "const", width |-> 2, raises |-> "none", on_empty |-> "empty"],
      [given |-> TRUE, kind |-> "bias", width |-> 3, raises |-> "none", on_empty |-> "ValueError"],
      [given |-> TRUE, kind |-> "bias", width |-> 2, raises |-> "ValueError", on_empty |-> "ValueError"],
      [given |-> TRUE, kind |-> "bias", width |-> 2, raises |-> "RuntimeError", on_empty |-> "ValueError"] }

NoPredictFunc ==
    [given |-> FALSE, kind |-> "const", width |-> 2, raises |-> "none", on_empty |-> "empty"]

\* ------------------------------------------------- text representation
\* process_texts_with_spacy: one annotated view per text, in input order.
process_texts_with_spacy(ts) == [i \in 1..Len(ts) |-> [text |-> ts[i], tokens |-> ts[i]]]

\* Concept.get_present_keywords: the concept's keywords that occur in the
\* text, in the order of the concept's keyword list.
get_present_keywords(concept, rep) ==
    LET Present(k) == k.text \in Range(rep.tokens)
        pos == Ascending({q \in 1..Len(concept.keywords) : Present(concept.keywords[q])})
    IN [i \in 1..Len(pos) |-> concept.keywords[pos[i]]]

\* Candidate substitutes of an occurrence of orig: every other keyword of the
\* concept, restricted (when respect_function holds and orig carries function
\* tags) to the keywords sharing a tag with orig; cut to n_texts when set.
Candidates(concept, orig, n_texts, respect_function) ==
    LET Ok(k) == /\ k.text # orig.text
                 /\ \/ ~respect_function
                    \/ orig.functions = {}
                    \/ k.functions \cap orig.functions # {}
        pos == Ascending({q \in 1..Len(concept.keywords) : Ok(concept.keywords[q])})
        kept == IF n_texts.kind = "None" \/ Len(pos) <= n_texts.v THEN pos
                ELSE SubSeq(pos, 1, n_texts.v)
    IN {concept.keywords[kept[i]].text : i \in 1..Len(kept)}

\* Concept.get_counterfactual_texts: for every occurrence of orig in the text,
\* the text with that occurrence replaced by each substitute (the candidates
\* and, exempt from the cap, orig itself), in keyword-list order.
get_counterfactual_texts(concept, orig, rep, n_texts, respect_function) ==
    LET cand == Candidates(concept, orig, n_texts, respect_function)
        Sub(k) == k.text = orig.text \/ k.text \in cand
        subs == Ascending({q \in 1..Len(concept.keywords) : Sub(concept.keywords[q])})
        IsOrig(tok) == tok = orig.text
        occ == Ascending({q \in 1..Len(rep.tokens) : IsOrig(rep.tokens[q])})
        ForOcc(p) == [j \in 1..Len(subs) |->
                        [text |-> [rep.tokens EXCEPT ![p] = concept.keywords[subs[j]].text],
                         keyword |-> concept.keywords[subs[j]]]]
    IN Concat([i \in 1..Len(occ) |-> ForOcc(occ[i])])

\* KeywordConceptDetector.detect: the texts, in input order, that contain a
\* keyword of at least one considered concept.
detect(cs, ts, names) ==
    LET Considered(c) == names = <<>> \/ c.name \in Range(names)
        Hit(t) == \E i \in 1..Len(cs) :
                     /\ Considered(cs[i])
                     /\ \E j \in 1..Len(cs[i].keywords) :
                           cs[i].keywords[j].text \in Range(t)
        pos == Ascending({q \in 1..Len(ts) : Hit(ts[q])})
    IN [i \in 1..Len(pos) |-> ts[pos[i]]]

\* ------------------------------------------------------ sample extraction
CounterfactualSample(text, orig_keyword, keyword, concept, tokenized, label, source_text) ==
    [text |-> text, orig_keyword |-> orig_keyword, keyword |-> keyword,
     concept |-> concept, tokenized |-> tokenized, score |-> NoneVal,
     label |-> label, source_text |-> source_text]

\* labels[idx] if labels else None
LabelAt(lbls, idx) ==
    IF lbls.given /\ lbls.items # <<>> THEN lbls.items[idx] ELSE NoneVal

extract_counterfactual_concept_samples(concept, ts, lbls, n_texts, respect_function) ==
    LET reps == process_texts_with_spacy(ts)
        ForKeyword(idx, orig) ==
            LET cts == get_counterfactual_texts(concept, orig, reps[idx], n_texts, respect_function)
            IN [j \in 1..Len(cts) |->
                  CounterfactualSample(cts[j].text, orig.text, cts[j].keyword.text,
                                       concept.name, reps[idx], LabelAt(lbls, idx),
                                       reps[idx].text)]
        ForText(idx) ==
            LET present == get_present_keywords(concept, reps[idx])
            IN Concat([k \in 1..Len(present) |-> ForKeyword(idx, present[k])])
    IN Concat([idx \in 1..Len(reps) |-> ForText(idx)])

\* ----------------------------------------------------------- prediction
\* P(class 1 | text), in tenths.
ClassOneProb(pf, t) ==
    IF pf.kind = "bias" THEN (IF "he" \in Range(t) THEN 9 ELSE 1) ELSE 5

ProbVector(pf, t) ==
    LET p1 == ClassOneProb(pf, t)
    IN IF pf.width = 2 THEN << 10 - p1, p1 >> ELSE << 9 - p1, p1, 1 >>

\* One invocation of the caller's predict_func on a batch of texts: the
\* exception it raises ("none" when it returns) and the vectors it returns.
PredictCall(pf, batch) ==
    IF batch = <<>>
    THEN [exc |-> IF pf.on_empty = "ValueError" THEN "ValueError" ELSE "none", out |-> <<>>]
    ELSE IF pf.raises # "none" /\ \E i \in 1..Len(batch) : FailToken \in Range(batch[i])
    THEN [exc |-> pf.raises, out |-> <<>>]
    ELSE [exc |-> "none", out |-> [i \in 1..Len(batch) |-> ProbVector(pf, batch[i])]]

\* Variant of calculate_counterfactual_scores: the samples are selected by
\* the keyword they replace instead of the keyword they introduce.
calculate_counterfactual_scores_by_origin(bias_keyword, pf, samples) ==
    LET IsTarget(sm) == sm.orig_keyword = bias_keyword
        pos == Ascending({q \in 1..Len(samples) : IsTarget(samples[q])})
        original_texts == [i \in 1..Len(pos) |-> samples[pos[i]].source_text]
        counterfactual_texts == [i \in 1..Len(pos) |-> samples[pos[i]].text]
        original_scores == PredictCall(pf, original_texts)
        predicted_scores == PredictCall(pf, counterfactual_texts)
    IN IF original_scores.exc # "none"
       THEN [exc |-> original_scores.exc, out |-> <<>>, batches |-> << original_texts >>]
       ELSE IF predicted_scores.exc # "none"
       THEN [exc |-> predicted_scores.exc, out |-> <<>>,
             batches |-> << original_texts, counterfactual_texts >>]
       ELSE IF original_scores.out = <<>>
       THEN [exc |-> "IndexError", out |-> <<>>,
             batches |-> << original_texts, counterfactual_texts >>]
       ELSE IF Len(original_scores.out[1]) # 2
       THEN [exc |-> "NotImplementedError", out |-> <<>>,
             batches |-> << original_texts, counterfactual_texts >>]
       ELSE [exc |-> "none",
             out |-> [i \in 1..Len(pos) |->
                        predicted_scores.out[i][2] - original_scores.out[i][2]],
             batches |-> << original_texts, counterfactual_texts >>]

\* _calculate_counterfactual_scores with positive_classes left at None (process
\* never passes it): the exception raised ("none" on return), the score
\* differences, and the batches predict_func was invoked with, in order.
calculate_counterfactual_scores(bias_keyword, pf, samples) ==
    LET IsTarget(sm) == sm.keyword = bias_keyword
        pos == Ascending({q \in 1..Len(samples) : IsTarget(samples[q])})
        original_texts == [i \in 1..Len(pos) |-> samples[pos[i]].source_text]
        counterfactual_texts == [i \in 1..Len(pos) |-> samples[pos[i]].text]
        original_scores == PredictCall(pf, original_texts)
        predicted_scores == PredictCall(pf, counterfactual_texts)
    IN IF original_scores.exc # "none"
       THEN [exc |-> original_scores.exc, out |-> <<>>, batches |-> << original_texts >>]
       ELSE IF predicted_scores.exc # "none"
       THEN [exc |-> predicted_scores.exc, out |-> <<>>,
             batches |-> << original_texts, counterfactual_texts >>]
       ELSE IF original_scores.out = <<>>
       THEN [exc |-> "IndexError", out |-> <<>>,
             batches |-> << original_texts, counterfactual_texts >>]
       ELSE IF Len(original_scores.out[1]) # 2
       THEN [exc |-> "NotImplementedError", out |-> <<>>,
             batches |-> << original_texts, counterfactual_texts >>]
       ELSE [exc |-> "none",
             out |-> [i \in 1..Len(pos) |->
                        predicted_scores.out[i][2] - original_scores.out[i][2]],
             batches |-> << original_texts, counterfactual_texts >>]

\* except ValueError: the failures of a keyword's scoring that process catches.
Caught(exc) == exc = "ValueError"

\* score_dict[keyword.text] = counterfactual_scores (an insertion-ordered dict).
DictSet(d, k, val) ==
    IF \E i \in 1..Len(d) : d[i].k = k
    THEN [i \in 1..Len(d) |-> IF d[i].k = k THEN [k |-> k, v |-> val] ELSE d[i]]
    ELSE Append(d, [k |-> k, v |-> val])

\* The baseline samples of keyword get the keyword's scores, zipped in order.
AssignScores(samples, keyword, scores) ==
    LET IsBaseline(sm) == sm.keyword = keyword /\ sm.keyword = sm.orig_keyword
        original_keyword_samples == Ascending({q \in 1..Len(samples) : IsBaseline(samples[q])})
        n == IF Len(scores) < Len(original_keyword_samples)
             THEN Len(scores) ELSE Len(original_keyword_samples)
        ScoreFor(i) == CHOOSE j \in 1..n : original_keyword_samples[j] = i
    IN [i \in 1..Len(samples) |->
          IF \E j \in 1..n : original_keyword_samples[j] = i
          THEN [samples[i] EXCEPT !.score = FloatVal(scores[ScoreFor(i)])]
          ELSE samples[i]]

\* ---------------------------------------------------------- aggregation
\* pd.DataFrame(dict((k, pd.Series(v)) ...)): one column per key, every column
\* padded with NaN to the length of the longest.
score_df(d) ==
    LET Longest == IF d = <<>> THEN 0
                   ELSE CHOOSE n \in {Len(d[i].v) : i \in 1..Len(d)} :
                            \A i \in 1..Len(d) : Len(d[i].v) <= n
    IN [i \in 1..Len(d) |->
          [k |-> d[i].k,
           v |-> [r \in 1..Longest |->
                    IF r <= Len(d[i].v) THEN FloatVal(d[i].v[r]) ELSE NaN]]]

\* Variant of duplicated: every member of a group of equal columns is marked.
duplicated_all(df, j) == \E i \in 1..Len(df) : i # j /\ df[i].v = df[j].v

\* score_df.T.duplicated(): column j repeats the values of an earlier column.
duplicated(df, j) == \E i \in 1..(j - 1) : df[i].v = df[j].v

omitted_keywords_of(df) ==
    LET Dup(col) == \E j \in 1..Len(df) : df[j].k = col.k /\ duplicated(df, j)
        pos == Ascending({q \in 1..Len(df) : Dup(df[q])})
    IN [i \in 1..Len(pos) |-> df[pos[i]].k]

retained_columns(df) ==
    LET Keep(col) == \E j \in 1..Len(df) : df[j].k = col.k /\ ~duplicated(df, j)
        pos == Ascending({q \in 1..Len(df) : Keep(df[q])})
    IN [i \in 1..Len(pos) |-> df[pos[i]]]

CounterfactualConceptResult(concept, scores, omitted, samples) ==
    [concept |-> concept, scores |-> scores, omitted_keywords |-> omitted,
     counterfactual_samples |-> samples]

\* ------------------------------------------------------------ validation
\* A sample cap that process rejects: given (truthy) but not an int >= 1.
RejectedCap(cap) == Truthy(cap) /\ (~IsInt(cap) \/ cap.v < 1)

\* Variant of UnknownConcept: the names of the filter are not looked up.
UnknownConcept_unchecked(filter, cs) == FALSE

\* concepts_to_consider names a concept that is not registered.
UnknownConcept(filter, cs) ==
    /\ filter.items # <<>>
    /\ \E i \in 1..Len(filter.items) : filter.items[i] \notin Range(ConceptNames(cs))

\* The argument checks at the entry of process; each raises ValueError.
InvalidArguments(ts, pf, filter, m, p, cs) ==
    \/ ~ts.given
    \/ ~pf.given
    \/ ~filter.isList
    \/ RejectedCap(m)
    \/ RejectedCap(p)
    \/ UnknownConcept(filter, cs)

\* ------------------------------------------------------------------ state
VARIABLES
    concepts,                              \* self.concepts
    pc,                                    \* position of the process call
    texts, predict_func, labels,           \* arguments of process
    concepts_to_consider,
    max_counterfactual_samples,
    max_counterfactual_samples_per_text,
    resprect_function,
    detected_texts,                        \* local: result of the detector
    results,                               \* local: concept results so far
    ci,                                    \* index of the concept loop
    ki,                                    \* index of the keyword loop
    counterfactual_samples,                \* local: samples of the concept
    score_dict,                            \* local: keyword -> scores
    raised,                                \* exception the last call ended with
    detect_calls,                          \* invocations of the detector
    predict_log,                           \* invocations of predict_func
    saved,                                 \* what save has written, if anything
    last                                   \* last call on the returned result

args == << texts, predict_func, labels, concepts_to_consider,
           max_counterfactual_samples, resprect_function >>

locals == << detected_texts, results, ci, ki, counterfactual_samples, score_dict >>

result_ops == << saved, last >>

vars == << concepts, pc, args, max_counterfactual_samples_per_text, locals,
           raised, detect_calls, predict_log, result_ops >>

\* No call on a returned result yet.
NoCall ==
    [op |-> "none", arg |-> "", exc |-> "none", warned |-> FALSE,
     scores |-> <<>>, samples |-> <<>>, shared |-> FALSE, index |-> 0]

NoTexts == [given |-> FALSE, items |-> <<>>]
NoLabels == [given |-> FALSE, items |-> <<>>]

Init ==
    /\ concepts = load_concepts
    /\ pc = "idle"
    /\ texts = NoTexts
    /\ predict_func = NoPredictFunc
    /\ labels = NoLabels
    /\ concepts_to_consider = [isList |-> TRUE, items |-> <<>>]
    /\ max_counterfactual_samples = NoneVal
    /\ max_counterfactual_samples_per_text = NoneVal
    /\ resprect_function = TRUE
    /\ detected_texts = <<>>
    /\ results = <<>>
    /\ ci = 1
    /\ ki = 1
    /\ counterfactual_samples = <<>>
    /\ score_dict = <<>>
    /\ raised = "none"
    /\ detect_calls = 0
    /\ predict_log = <<>>
    /\ saved = <<>>
    /\ last = NoCall

\* --------------------------------------------------------------- actions
\* Variant of register_concept: the name is not compared with the registered ones.
register_concept_any_name(concept) ==
    /\ pc = "idle"
    /\ concept.isConcept
    /\ concepts' = Append(concepts, concept)
    /\ raised' = "none"
    /\ UNCHANGED << pc, args, max_counterfactual_samples_per_text, locals,
                    detect_calls, predict_log >>
    /\ UNCHANGED result_ops

\* register_concept(concept)
register_concept(concept) ==
    /\ pc = "idle"
    /\ concept.isConcept
    /\ concept.name \notin Range(ConceptNames(concepts))
    /\ concepts' = Append(concepts, concept)
    /\ raised' = "none"
    /\ UNCHANGED << pc, args, max_counterfactual_samples_per_text, locals,
                    detect_calls, predict_log >>
    /\ UNCHANGED result_ops

\* register_concept(concept) raising ValueError: self.concepts stays as it is.
register_concept_rejected(concept) ==
    /\ pc = "idle"
    /\ ~concept.isConcept \/ concept.name \in Range(ConceptNames(concepts))
    /\ raised' = "ValueError"
    /\ UNCHANGED << concepts, pc, args, max_counterfactual_samples_per_text, locals,
                    detect_calls, predict_log >>
    /\ UNCHANGED result_ops

\* process(...) is called: the arguments are bound and validated.
process_call(ts, pf, lb, filter, m, p, rf) ==
    /\ pc = "idle"
    /\ texts' = ts
    /\ predict_func' = pf
    /\ labels' = lb
    /\ concepts_to_consider' = filter
    /\ max_counterfactual_samples' = m
    /\ max_counterfactual_samples_per_text' = p
    /\ resprect_function' = rf
    /\ IF InvalidArguments(ts, pf, filter, m, p, concepts)
       THEN pc' = "raised" /\ raised' = "ValueError"
       ELSE pc' = "detect" /\ raised' = "none"
    /\ UNCHANGED << concepts, locals, detect_calls, predict_log >>
    /\ UNCHANGED result_ops

\* Variant of PerTextCap: the quotient alone.
PerTextCap_quotient(m, d) == m \div d

\* max_counterfactual_samples // len(detected_texts) + 1
PerTextCap(m, d) == (m \div d) + 1

\* detected_texts = self.concept_detector.detect(texts, concepts_to_consider)
run_detector ==
    /\ pc = "detect"
    /\ detected_texts' = detect(concepts, texts.items, concepts_to_consider.items)
    /\ detect_calls' = detect_calls + 1
    /\ pc' = "cap"
    /\ UNCHANGED << concepts, args, max_counterfactual_samples_per_text, results,
                    ci, ki, counterfactual_samples, score_dict, raised, predict_log >>
    /\ UNCHANGED result_ops

\* The global cap, when given, replaces the per-text cap; results = [].
limit_per_text ==
    /\ pc = "cap"
    /\ Truthy(max_counterfactual_samples)
    /\ Len(detected_texts) # 0
    /\ max_counterfactual_samples_per_text' =
           IntVal(PerTextCap(max_counterfactual_samples.v, Len(detected_texts)))
    /\ results' = <<>>
    /\ ci' = 1
    /\ pc' = "concept"
    /\ UNCHANGED << concepts, args, detected_texts, ki, counterfactual_samples,
                    score_dict, raised, detect_calls, predict_log >>
    /\ UNCHANGED result_ops

\* The division by len(detected_texts) = 0 raises ZeroDivisionError.
limit_per_text_fails ==
    /\ pc = "cap"
    /\ Truthy(max_counterfactual_samples)
    /\ Len(detected_texts) = 0
    /\ pc' = "raised"
    /\ raised' = "ZeroDivisionError"
    /\ UNCHANGED << concepts, args, max_counterfactual_samples_per_text, locals,
                    detect_calls, predict_log >>
    /\ UNCHANGED result_ops

\* No global cap: the per-text cap stays as passed; results = [].
no_global_cap ==
    /\ pc = "cap"
    /\ ~Truthy(max_counterfactual_samples)
    /\ results' = <<>>
    /\ ci' = 1
    /\ pc' = "concept"
    /\ UNCHANGED << concepts, args, max_counterfactual_samples_per_text,
                    detected_texts, ki, counterfactual_samples, score_dict,
                    raised, detect_calls, predict_log >>
    /\ UNCHANGED result_ops

\* The concept filter of the loop: this concept is not to be considered.
FilteredOut(concept) ==
    /\ concepts_to_consider.items # <<>>
    /\ concept.name \notin Range(concepts_to_consider.items)

SamplesOf(concept) ==
    extract_counterfactual_concept_samples(
        concept, detected_texts, labels,
        max_counterfactual_samples_per_text, resprect_function)

\* Variant of NoSamples: a concept without samples is scored all the same.
NoSamples_ignored(samples) == FALSE

\* A concept with no samples is skipped before any scoring.
NoSamples(samples) == samples = <<>>

\* for concept in self.concepts: continue, either filtered out (before any
\* assignment) or without samples (score_dict and the sample list already
\* assigned, both empty)
skip_concept ==
    /\ pc = "concept"
    /\ ci <= Len(concepts)
    /\ FilteredOut(concepts[ci]) \/ NoSamples(SamplesOf(concepts[ci]))
    /\ ci' = ci + 1
    /\ IF FilteredOut(concepts[ci])
       THEN UNCHANGED << counterfactual_samples, score_dict >>
       ELSE /\ score_dict' = <<>>
            /\ counterfactual_samples' = SamplesOf(concepts[ci])
    /\ UNCHANGED << concepts, pc, args, max_counterfactual_samples_per_text,
                    detected_texts, results, ki, raised, detect_calls,
                    predict_log >>
    /\ UNCHANGED result_ops

\* for concept in self.concepts: the samples are extracted, score_dict = {}
extract_samples ==
    /\ pc = "concept"
    /\ ci <= Len(concepts)
    /\ ~FilteredOut(concepts[ci])
    /\ ~NoSamples(SamplesOf(concepts[ci]))
    /\ counterfactual_samples' = SamplesOf(concepts[ci])
    /\ score_dict' = <<>>
    /\ ki' = 1
    /\ pc' = "keyword"
    /\ UNCHANGED << concepts, args, max_counterfactual_samples_per_text,
                    detected_texts, results, ci, raised, detect_calls, predict_log >>
    /\ UNCHANGED result_ops

\* One iteration of "for keyword in concept.keywords".
score_keyword ==
    /\ pc = "keyword"
    /\ ki <= Len(concepts[ci].keywords)
    /\ LET keyword == concepts[ci].keywords[ki]
           r == calculate_counterfactual_scores(keyword.text, predict_func,
                                                counterfactual_samples)
       IN /\ predict_log' = predict_log \o
                 [i \in 1..Len(r.batches) |->
                    [concept |-> concepts[ci].name, keyword |-> keyword.text,
                     batch |-> r.batches[i]]]
          /\ IF r.exc = "none"
             THEN /\ score_dict' = DictSet(score_dict, keyword.text, r.out)
                  /\ counterfactual_samples' =
                         AssignScores(counterfactual_samples, keyword.text, r.out)
                  /\ ki' = ki + 1
                  /\ UNCHANGED << pc, raised >>
             ELSE IF Caught(r.exc)
             THEN /\ ki' = ki + 1
                  /\ UNCHANGED << pc, raised, score_dict, counterfactual_samples >>
             ELSE /\ pc' = "raised"
                  /\ raised' = r.exc
                  /\ UNCHANGED << ki, score_dict, counterfactual_samples >>
    /\ UNCHANGED << concepts, args, max_counterfactual_samples_per_text,
                    detected_texts, results, ci, detect_calls >>
    /\ UNCHANGED result_ops

\* After the keyword loop: de-duplicate the score columns, append the result.
append_result ==
    /\ pc = "keyword"
    /\ ki > Len(concepts[ci].keywords)
    /\ LET df == score_df(score_dict)
       IN results' = Append(results,
              CounterfactualConceptResult(concepts[ci].name, retained_columns(df),
                                          omitted_keywords_of(df),
                                          counterfactual_samples))
    /\ ci' = ci + 1
    /\ pc' = "concept"
    /\ UNCHANGED << concepts, args, max_counterfactual_samples_per_text,
                    detected_texts, ki, counterfactual_samples, score_dict,
                    raised, detect_calls, predict_log >>
    /\ UNCHANGED result_ops

\* return CounterfactualDetectionResult(concept_results=results)
return_result ==
    /\ pc = "concept"
    /\ ci > Len(concepts)
    /\ pc' = "done"
    /\ UNCHANGED << concepts, args, max_counterfactual_samples_per_text, locals,
                    raised, detect_calls, predict_log >>
    /\ UNCHANGED result_ops

\* ------------------------------------------- the returned result object
Paths == {"results.pkl", "results\\0.pkl", "/read_only/results.pkl"}

\* open(path, "wb"): the exception it raises ("none" when the file opens).
\* A path with an embedded null byte is a ValueError, a target that cannot
\* be written a PermissionError (an OSError).
OpenOutcome(path) ==
    CASE path = "results.pkl" -> "none"
      [] path = "results\\0.pkl" -> "ValueError"
      [] OTHER -> "PermissionError"

\* except ValueError: the failures that save turns into a warning.
SaveCaught(exc) == exc = "ValueError"

\* The position of the first concept result with the given name, 0 if none.
FirstResult(rs, concept) ==
    IF \E i \in 1..Len(rs) : rs[i].concept = concept
    THEN CHOOSE i \in 1..Len(rs) :
            /\ rs[i].concept = concept
            /\ \A j \in 1..(i - 1) : rs[j].concept # concept
    ELSE 0

\* Variant of get_result_by_concept: the stored table itself is handed out.
get_result_by_concept_no_copy(rs, concept) ==
    LET i == FirstResult(rs, concept)
    IN IF i = 0
       THEN [NoCall EXCEPT !.op = "scores", !.arg = concept, !.exc = "ValueError"]
       ELSE [NoCall EXCEPT !.op = "scores", !.arg = concept, !.index = i,
                           !.scores = rs[i].scores, !.shared = TRUE]

\* _get_result_by_concept: a copy of the score table of the first concept
\* result with this name; ValueError when there is none.
get_result_by_concept(rs, concept) ==
    LET i == FirstResult(rs, concept)
    IN IF i = 0
       THEN [NoCall EXCEPT !.op = "scores", !.arg = concept, !.exc = "ValueError"]
       ELSE [NoCall EXCEPT !.op = "scores", !.arg = concept, !.index = i,
                           !.scores = rs[i].scores, !.shared = FALSE]

\* _get_counterfactual_samples_by_concept: the sample list (the stored list
\* itself) of the first concept result with this name; ValueError when none.
get_counterfactual_samples_by_concept(rs, concept) ==
    LET i == FirstResult(rs, concept)
    IN IF i = 0
       THEN [NoCall EXCEPT !.op = "samples", !.arg = concept, !.exc = "ValueError"]
       ELSE [NoCall EXCEPT !.op = "samples", !.arg = concept, !.index = i,
                           !.samples = rs[i].counterfactual_samples, !.shared = TRUE]

process_state == << concepts, pc, args, max_counterfactual_samples_per_text,
                    detected_texts, ci, ki, counterfactual_samples, score_dict,
                    raised, detect_calls, predict_log >>

\* CounterfactualDetectionResult.save(path)
save(path) ==
    /\ pc = "done"
    /\ LET exc == OpenOutcome(path)
       IN IF exc = "none"
          THEN /\ saved' = << results >>
               /\ last' = [NoCall EXCEPT !.op = "save", !.arg = path]
          ELSE IF SaveCaught(exc)
          THEN /\ saved' = saved
               /\ last' = [NoCall EXCEPT !.op = "save", !.arg = path, !.warned = TRUE]
          ELSE /\ saved' = saved
               /\ last' = [NoCall EXCEPT !.op = "save", !.arg = path, !.exc = exc]
    /\ UNCHANGED << process_state, results >>

\* result._get_result_by_concept(concept)
get_scores(concept) ==
    /\ pc = "done"
    /\ last' = get_result_by_concept(results, concept)
    /\ UNCHANGED << process_state, results, saved >>

\* result._get_counterfactual_samples_by_concept(concept)
get_samples(concept) ==
    /\ pc = "done"
    /\ last' = get_counterfactual_samples_by_concept(results, concept)
    /\ UNCHANGED << process_state, results, saved >>

\* The caller changes the score table it was handed (drops its first column);
\* the stored table changes with it only if the two are one object.
caller_modifies_scores ==
    /\ pc = "done"
    /\ last.op = "scores"
    /\ last.exc = "none"
    /\ last.scores # <<>>
    /\ last' = [last EXCEPT !.op = "modified", !.scores = Tail(@)]
    /\ results' = IF last.shared
                  THEN [results EXCEPT ![last.index].scores = Tail(@)]
                  ELSE results
    /\ UNCHANGED << process_state, saved >>

RequestedConcepts == {"gender", "religion"}

save_any == \E path \in Paths : save(path)

get_scores_any == \E concept \in RequestedConcepts : get_scores(concept)

get_samples_any == \E concept \in RequestedConcepts : get_samples(concept)

\* The caller's moves while no call is in progress.
register_any ==
    /\ pc = "idle"
    /\ \E c \in Registrable : register_concept(c)

register_any_rejected ==
    /\ pc = "idle"
    /\ \E c \in Registrable : register_concept_rejected(c)

process_any ==
    /\ pc = "idle"
    /\ \E ts \in {NoTexts} \cup {[given |-> TRUE, items |-> t] : t \in TextLists},
          pf \in PredictFuncs \cup {NoPredictFunc},
          filter \in ConceptFilters,
          m \in CapValues, p \in PerTextCapValues, rf \in BOOLEAN :
          \E lb \in {NoLabels, [given |-> TRUE, items |-> LabelsFor(ts.items)]} :
              process_call(ts, pf, lb, filter, m, p, rf)

Next ==
    \/ register_any
    \/ register_any_rejected
    \/ process_any
    \/ run_detector
    \/ limit_per_text
    \/ limit_per_text_fails
    \/ no_global_cap
    \/ skip_concept
    \/ extract_samples
    \/ score_keyword
    \/ append_result
    \/ return_result
    \/ save_any
    \/ get_scores_any
    \/ get_samples_any
    \/ caller_modifies_scores

Spec == Init /\ [][Next]_vars

\* ------------------------------------------------------------ properties
\* The keyword the keyword loop is about to score, and the outcome of scoring.
AtKeyword == pc = "keyword" /\ ki <= Len(concepts[ci].keywords)

CurrentKeyword == concepts[ci].keywords[ki].text

CurrentOutcome ==
    calculate_counterfactual_scores(CurrentKeyword, predict_func, counterfactual_samples)

\* The exception predict_func itself raises while the current keyword is
\* scored ("none" when both of its invocations return).
PredictFailure ==
    LET IsTarget(sm) == sm.keyword = CurrentKeyword
        pos == Ascending({q \in 1..Len(counterfactual_samples) : IsTarget(counterfactual_samples[q])})
        first == PredictCall(predict_func,
                     [i \in 1..Len(pos) |-> counterfactual_samples[pos[i]].source_text])
        second == PredictCall(predict_func,
                     [i \in 1..Len(pos) |-> counterfactual_samples[pos[i]].text])
    IN IF first.exc # "none" THEN first.exc ELSE second.exc

\* The keyword loop moves on to the next keyword without a column for this one.
KeywordSkipped ==
    /\ pc' = "keyword"
    /\ ki' = ki + 1
    /\ ci' = ci
    /\ score_dict' = score_dict
    /\ counterfactual_samples' = counterfactual_samples
    /\ results' = results
    /\ raised' = "none"

ColumnKeys(r) == {r.scores[i].k : i \in 1..Len(r.scores)}

\* C1 (as stated): whatever kind of failure predict_func raises while a
\* keyword is scored, the keyword is skipped (no column, nothing appended,
\* nothing raised) and process stays in the keyword loop at the next keyword,
\* so that the remaining keywords and concepts are still processed.
C1_AnyPredictFailureSkipsKeyword ==
    [][(AtKeyword /\ PredictFailure # "none") => KeywordSkipped]_vars

\* C2 (as stated): probability vectors of a width other than 2 never end
\* process; the "not implemented" failure is kept to the keyword being scored.
C2_MultiClassFailureKeptToKeyword ==
    ~(pc = "raised" /\ raised = "NotImplementedError")

\* A cap argument that is given and is not a positive integer.
NotPositiveInteger(cap) == cap.kind # "None" /\ (~IsInt(cap) \/ cap.v < 1)

NothingDone == detect_calls = 0 /\ predict_log = <<>>

\* C3 (as stated): a call whose max_counterfactual_samples or
\* max_counterfactual_samples_per_text is not a positive integer ends with
\* ValueError before the detector or predict_func is invoked.
C3_NonPositiveCapsRejected ==
    (/\ pc # "idle"
     /\ \/ NotPositiveInteger(max_counterfactual_samples)
        \/ NotPositiveInteger(max_counterfactual_samples_per_text))
    => (pc = "raised" /\ raised = "ValueError" /\ NothingDone)

NamesUnregistered ==
    /\ concepts_to_consider.isList
    /\ \E i \in 1..Len(concepts_to_consider.items) :
          \A j \in 1..Len(concepts) : concepts[j].name # concepts_to_consider.items[i]

\* C4: a call whose concepts_to_consider list names an unregistered concept
\* ends with ValueError before the detector or predict_func is invoked.
C4_UnknownConceptRejected ==
    (pc # "idle" /\ NamesUnregistered)
    => (pc = "raised" /\ raised = "ValueError" /\ NothingDone)

\* C4 witness: a call, valid but for the unregistered name, was rejected.
C4_Witness ==
    /\ pc = "raised"
    /\ NamesUnregistered
    /\ texts.given /\ texts.items # <<>>
    /\ predict_func.given
    /\ ~NotPositiveInteger(max_counterfactual_samples)
    /\ ~NotPositiveInteger(max_counterfactual_samples_per_text)

\* Valid arguments: texts and predict_func given, a list of registered names,
\* each cap either absent or a positive integer.
ValidCall ==
    /\ pc # "idle"
    /\ texts.given
    /\ predict_func.given
    /\ concepts_to_consider.isList
    /\ ~NamesUnregistered
    /\ ~NotPositiveInteger(max_counterfactual_samples)
    /\ ~NotPositiveInteger(max_counterfactual_samples_per_text)

TextHasKeywordOf(t, concept) ==
    \E j \in 1..Len(concept.keywords) : concept.keywords[j].text \in Range(t)

NoKeywordInAnyText ==
    \A i \in 1..Len(texts.items) : \A c \in 1..Len(concepts) :
        ~TextHasKeywordOf(texts.items[i], concepts[c])

\* C5 (as stated): with valid arguments and no concept keyword in any text,
\* process raises nothing, never invokes predict_func and returns an empty
\* concept list, whatever the caps are.
C5_NoKeywordsGivesEmptyResult ==
    (ValidCall /\ NoKeywordInAnyText)
    => (/\ raised = "none"
        /\ predict_log = <<>>
        /\ (pc = "done" => results = <<>>))

\* The concepts the call considers, and the number of texts of the input
\* that contain a keyword of at least one of them.
Considered(concept) ==
    concepts_to_consider.items = <<>> \/
    \E i \in 1..Len(concepts_to_consider.items) :
        concepts_to_consider.items[i] = concept.name

TextsWithKeyword ==
    {i \in 1..Len(texts.items) :
        \E c \in 1..Len(concepts) :
            Considered(concepts[c]) /\ TextHasKeywordOf(texts.items[i], concepts[c])}

GlobalCapGiven ==
    max_counterfactual_samples.kind = "int" /\ max_counterfactual_samples.v >= 1

\* C6: with max_counterfactual_samples = m given, the per-text cap in force
\* while the concepts are processed, and handed to the sample generator, is
\* (m div d) + 1 for d the number of texts containing a concept keyword,
\* whatever per-text cap was passed; it is at least 1.
C6_GlobalCapBecomesPerTextCap ==
    (pc \in {"concept", "keyword", "done"} /\ GlobalCapGiven) =>
       LET d == Cardinality(TextsWithKeyword)
           cap == IntVal((max_counterfactual_samples.v \div d) + 1)
       IN /\ d >= 1
          /\ max_counterfactual_samples_per_text = cap
          /\ cap.v >= 1
          /\ pc = "keyword" =>
                LET handed == extract_counterfactual_concept_samples(
                                  concepts[ci], detected_texts, labels, cap,
                                  resprect_function)
                IN /\ Len(counterfactual_samples) = Len(handed)
                   /\ \A i \in 1..Len(handed) :
                         /\ counterfactual_samples[i].text = handed[i].text
                         /\ counterfactual_samples[i].keyword = handed[i].keyword
                         /\ counterfactual_samples[i].source_text = handed[i].source_text

\* C6 witness: samples were generated under a global cap of 1 spread over two
\* texts with keywords, which gives a per-text cap of (1 div 2) + 1 = 1.
C6_Witness ==
    /\ pc = "keyword"
    /\ GlobalCapGiven
    /\ counterfactual_samples # <<>>
    /\ Cardinality(TextsWithKeyword) = 2
    /\ max_counterfactual_samples.v = 1
    /\ max_counterfactual_samples_per_text = IntVal(1)

RECURSIVE TotalSamples(_)
TotalSamples(rs) ==
    IF rs = <<>> THEN 0
    ELSE Len(Head(rs).counterfactual_samples) + TotalSamples(Tail(rs))

\* C7 (as stated): with max_counterfactual_samples = m given, the returned
\* result holds at most m counterfactual samples in total.
C7_TotalSamplesWithinGlobalCap ==
    (pc = "done" /\ GlobalCapGiven) =>
        TotalSamples(results) <= max_counterfactual_samples.v

\* The label a sample carries is the label at a position of its source text
\* in the texts passed to process.
LabelAligned(sm) ==
    \E j \in 1..Len(texts.items) :
        texts.items[j] = sm.source_text /\ labels.items[j] = sm.label

\* C8 (as stated): when labels are given, every generated sample carries the
\* label found at the position of its source text in the texts input.
C8_LabelsAlignedWithTexts ==
    (labels.given /\ pc \in {"concept", "keyword", "done"}) =>
        /\ pc = "keyword" =>
              \A i \in 1..Len(counterfactual_samples) :
                  LabelAligned(counterfactual_samples[i])
        /\ \A r \in 1..Len(results) :
              \A i \in 1..Len(results[r].counterfactual_samples) :
                  LabelAligned(results[r].counterfactual_samples[i])

\* The step that ends the keyword loop of a concept and appends its result.
ResultAppended ==
    /\ pc = "keyword"
    /\ ki > Len(concepts[ci].keywords)
    /\ pc' = "concept"
    /\ Len(results') = Len(results) + 1

\* C9: in the result appended for a concept, a scored keyword is omitted
\* exactly when its padded score column equals that of a keyword scored
\* earlier; retained and omitted keywords are disjoint, together they are the
\* scored keywords, and of every group of equal columns exactly the first
\* keyword is retained, with its own column.
C9_DeduplicationPartitionsKeywords ==
    [][ResultAppended =>
        LET d == score_dict
            r == results'[Len(results')]
            n == Len(d)
            Rows == {row \in 1..Len(counterfactual_samples) :
                        \E i \in 1..n : row <= Len(d[i].v)}
            Cell(i, row) == IF row <= Len(d[i].v) THEN FloatVal(d[i].v[row]) ELSE NaN
            Same(i, j) == \A row \in Rows : Cell(i, row) = Cell(j, row)
            Scored == {d[i].k : i \in 1..n}
            Omitted == Range(r.omitted_keywords)
            Retained == ColumnKeys(r)
        IN /\ \A i \in 1..n :
                 d[i].k \in Omitted <=> \E j \in 1..(i - 1) : Same(j, i)
           /\ Omitted \cap Retained = {}
           /\ Omitted \cup Retained = Scored
           /\ Len(r.omitted_keywords) = Cardinality(Omitted)
           /\ Len(r.scores) = Cardinality(Retained)
           /\ \A i \in 1..n :
                 LET group == {j \in 1..n : Same(i, j)}
                     kept == {j \in group : d[j].k \in Retained}
                 IN /\ Cardinality(kept) = 1
                    /\ \A j \in kept : \A g \in group : j <= g
           /\ \A c \in 1..Len(r.scores) :
                 \E i \in 1..n :
                    /\ d[i].k = r.scores[c].k
                    /\ Len(r.scores[c].v) = Cardinality(Rows)
                    /\ \A row \in Rows : r.scores[c].v[row] = Cell(i, row)
       ]_vars

\* C9 witness: a returned concept result with an omitted keyword, at least two
\* retained columns and a column padded with a missing value.
C9_Witness ==
    /\ pc = "done"
    /\ \E i \in 1..Len(results) :
         /\ results[i].omitted_keywords # <<>>
         /\ Len(results[i].scores) >= 2
         /\ \E c \in 1..Len(results[i].scores) : NaN \in Range(results[i].scores[c].v)

\* A concept yields samples when a text of the input holds one of its keywords.
Qualifies(concept) ==
    /\ Considered(concept)
    /\ \E i \in 1..Len(texts.items) : TextHasKeywordOf(texts.items[i], concept)

\* The names of the qualifying concepts among the first n registered ones.
QualifyingNames(n) ==
    LET pos == Ascending({q \in 1..n : Qualifies(concepts[q])})
    IN [i \in 1..Len(pos) |-> concepts[pos[i]].name]

ResultNames(rs) == [i \in 1..Len(rs) |-> rs[i].concept]

\* C10: the concept results are, in registration order and once each, the
\* concepts that pass the filter and produced a sample; predict_func is never
\* invoked for a concept without samples.
C10_ResultsInRegistrationOrder ==
    /\ pc \in {"concept", "keyword", "done"} =>
          /\ ResultNames(results) = QualifyingNames(ci - 1)
          /\ \A i, j \in 1..Len(results) :
                results[i].concept = results[j].concept => i = j
          /\ \A i \in 1..Len(results) : results[i].counterfactual_samples # <<>>
    /\ pc = "done" => ResultNames(results) = QualifyingNames(Len(concepts))
    /\ \A e \in 1..Len(predict_log) :
          \E c \in 1..Len(concepts) :
              concepts[c].name = predict_log[e].concept /\ Qualifies(concepts[c])

\* C10 witness: with two registered concepts and no filter, process returned
\* a result for the first only, the second having no samples, after scoring.
C10_Witness ==
    /\ pc = "done"
    /\ Len(concepts) = 2
    /\ concepts_to_consider.items = <<>>
    /\ ResultNames(results) = <<"gender">>
    /\ predict_log # <<>>

\* A step of register_concept: no process call is in progress before or after.
RegistrationStep == pc = "idle" /\ pc' = "idle"

DistinctNames(cs) == \A i, j \in 1..Len(cs) : cs[i].name = cs[j].name => i = j

\* C11: the registered names stay pairwise distinct; a registration either
\* fails with ValueError and leaves the registered list as it is, which is
\* what happens to a non-Concept value and to an already registered name, or
\* appends a Concept with a new name behind the unchanged existing entries.
C11_RegisteredNamesDistinct ==
    /\ []DistinctNames(concepts)
    /\ [][RegistrationStep =>
            \/ raised' = "ValueError" /\ concepts' = concepts
            \/ /\ raised' = "none"
               /\ Len(concepts') = Len(concepts) + 1
               /\ SubSeq(concepts', 1, Len(concepts)) = concepts
               /\ concepts'[Len(concepts')].isConcept
               /\ \A i \in 1..Len(concepts) :
                     concepts[i].name # concepts'[Len(concepts')].name
       ]_vars

\* C11 witness: after a successful registration, a further registration
\* was rejected and the two registered concepts are still in place.
C11_Witness ==
    /\ pc = "idle"
    /\ raised = "ValueError"
    /\ concepts = << GenderConcept, ReligionConcept >>

\* C12 (as stated): a save to a target that cannot be written raises
\* nothing to the caller; the failure becomes a warning.
C12_SaveFailureOnlyWarns ==
    (last.op = "save" /\ OpenOutcome(last.arg) # "none")
    => (last.exc = "none" /\ last.warned)

\* The concept results carrying the requested name.
Hits(rs, concept) == {i \in 1..Len(rs) : rs[i].concept = concept}

\* C13: a read accessor fails with ValueError exactly when no concept result
\* has the requested name; otherwise it returns the score table (the sample
\* list) of the first concept result with that name. No call on the returned
\* result changes the stored results, even when the caller changes the score
\* table it was handed.
C13_AccessorsReadFirstMatch ==
    /\ [](last.op \in {"scores", "samples"} =>
            LET hits == Hits(results, last.arg)
            IN /\ last.exc = "ValueError" <=> hits = {}
               /\ last.exc \in {"ValueError", "none"}
               /\ \A i \in hits :
                    (\A j \in hits : i <= j) =>
                        IF last.op = "scores"
                        THEN last.scores = results[i].scores
                        ELSE last.samples = results[i].counterfactual_samples)
    /\ [][(pc = "done" /\ pc' = "done") => results' = results]_vars

C13_Witness ==
    /\ last.op = "modified"
    /\ last.arg = "religion"
    /\ last.index = 2
    /\ results[2].scores # last.scores

\* The samples process holds: those of the concept being scored and those
\* of the concept results already built.
StoredSamples ==
    (IF pc = "keyword" THEN Range(counterfactual_samples) ELSE {})
    \cup UNION {Range(results[i].counterfactual_samples) : i \in 1..Len(results)}

\* P(class 1 | sample.text) - P(class 1 | sample.source_text), in tenths.
OwnDifferential(sm) ==
    ClassOneProb(predict_func, sm.text) - ClassOneProb(predict_func, sm.source_text)

\* C14 (as stated): the score stored on a sample is the differential of that
\* very sample, P(class 1 | its text) - P(class 1 | its source text).
C14_ScoreIsOwnDifferential ==
    \A sm \in StoredSamples :
        sm.score # NoneVal => sm.score = FloatVal(OwnDifferential(sm))

\* No keyword of the concept failed: each has a score column or was omitted
\* as a duplicate.
AllKeywordsScored(r) ==
    \E i \in 1..Len(concepts) :
        /\ concepts[i].name = r.concept
        /\ \A k \in 1..Len(concepts[i].keywords) :
              concepts[i].keywords[k].text \in
                  ColumnKeys(r) \cup Range(r.omitted_keywords)

\* C15 (as stated): when no keyword fails, every sample of a returned concept
\* result, baseline or not, has its score set.
C15_EverySampleScored ==
    pc = "done" =>
        \A i \in 1..Len(results) :
            AllKeywordsScored(results[i]) =>
                \A sm \in Range(results[i].counterfactual_samples) :
                    sm.score # NoneVal

\* A keyword was scored in this step: its column entered score_dict.
KeywordScored ==
    /\ AtKeyword
    /\ ki' = ki + 1
    /\ score_dict' # score_dict

\* C16: scoring a keyword invokes predict_func exactly twice, first with the
\* source texts and then with the counterfactual texts of exactly the samples
\* whose substitute keyword is the target, in sample order; the keyword's
\* column has the same length and its entry i is
\* P(class 1 | counterfactual i) - P(class 1 | source i).
C16_TwoPredictCallsPerKeyword ==
    [][KeywordScored =>
        LET target == Ascending({q \in 1..Len(counterfactual_samples) :
                          counterfactual_samples[q].keyword = CurrentKeyword})
            calls == SubSeq(predict_log', Len(predict_log) + 1, Len(predict_log'))
            column == score_dict'[Len(score_dict')]
        IN /\ Len(calls) = 2
           /\ column.k = CurrentKeyword
           /\ Len(calls[1].batch) = Len(target)
           /\ Len(calls[2].batch) = Len(target)
           /\ Len(column.v) = Len(target)
           /\ \A i \in 1..Len(target) :
                /\ calls[1].batch[i] = counterfactual_samples[target[i]].source_text
                /\ calls[2].batch[i] = counterfactual_samples[target[i]].text
                /\ column.v[i] = ClassOneProb(predict_func, calls[2].batch[i])
                                 - ClassOneProb(predict_func, calls[1].batch[i])
    ]_vars

C16_Witness ==
    /\ pc = "keyword"
    /\ score_dict # <<>>
    /\ Len(predict_log) >= 2
    /\ LET column == score_dict[Len(score_dict)]
           n == Len(predict_log)
       IN /\ Len(column.v) = 2
          /\ column.v[1] # 0
          /\ predict_log[n].keyword = column.k
          /\ Len(predict_log[n].batch) = 2
          /\ predict_log[n - 1].batch # predict_log[n].batch
          /\ \E sm \in Range(counterfactual_samples) : sm.keyword # column.k

\* C17 (as stated): predict_func is only ever invoked with a batch of at
\* least one text; a keyword without samples is passed over before any call.
C17_NoEmptyPredictBatch ==
    \A i \in 1..Len(predict_log) : predict_log[i].batch # <<>>

====
